---------------------------- MODULE Spec2Model ----------------------------
(***************************************************************************)
(* Model of src/js/diagrams.js: the five diagram controllers               *)
(* (FlowchartController, SequenceController, InteractiveDiagramController, *)
(* StateDiagramController, RefrigerationCycleController) as state          *)
(* machines over the DOM state they touch, the timers they create and the  *)
(* result of the last call (exception, console output, dispatched events). *)
(*                                                                         *)
(* JavaScript is single threaded: every handler, timer callback and frame  *)
(* callback runs to completion, so each is one atomic action.  Indexes are *)
(* 0-based as in the source; element k of a JavaScript array a is a[k+1]   *)
(* of the sequence that models it.                                         *)
(***************************************************************************)
EXTENDS Integers, Sequences, FiniteSets, TLC

(***************************************************************************)
(* Bounds of the model.                                                    *)
(***************************************************************************)
MaxNodes == 2
\* elements of one kind (nodes, messages, states) in one container
MaxRuns == 2
\* playAnimation() / playSequence() calls of one flowchart or sequence controller

Null == "null"
\* JavaScript null / undefined

VARIABLES
    \* ---- FlowchartController ----
    fc_svg,          \* this.svg is an element (TRUE) or null (FALSE)
    fc_nodes,        \* this.nodes: sequence of node elements
    fc_currentStep,  \* this.currentStep
    fc_listeners,    \* indexes whose node has the click listener of line 27
    fc_classList,    \* DOM: element -> its classes among selected / node-highlighted
    fc_label,        \* DOM: element -> text of its .flowchart-label child, or Null
    fc_timers,       \* run -> [state, step]: the interval and closure of one playAnimation()
    \* ---- SequenceController ----
    sq_svg,          \* this.svg is an element (TRUE) or null (FALSE)
    sq_messages,     \* this.messages: sequence of message elements
    sq_listeners,    \* indexes whose message has the hover listeners of lines 115-116
    sq_style,        \* DOM: element -> inline style [stroke, strokeWidth, opacity]
    sq_sibling,      \* DOM: element -> text of the .sequence-label after it, or Null
    sq_timers,       \* run -> [state, step]: the interval and closure of one playSequence()
    \* ---- InteractiveDiagramController ----
    id_svg,          \* this.svg is an element (TRUE) or null (FALSE)
    id_nodes,        \* this.nodes: sequence of node elements
    id_connections,  \* this.connections: sequence of connection elements
    id_selectedNode, \* this.selectedNode: an element, or NoElement for null
    id_config,       \* the options argument the constructor was called with
    id_options,      \* this.options: [showTooltip, highlightConnections]
    id_listeners,    \* elements with the listeners of lines 204-206
    id_tooltip,      \* this.tooltip and its DOM state
    id_selected,     \* DOM: node elements whose classList holds "selected"
    id_active,       \* DOM: connection elements whose classList holds "active"
    id_markup,       \* DOM: element -> [dataId, dataLabel, text] as written in the page
    \* ---- StateDiagramController ----
    sd_svg,          \* this.svg is an element (TRUE) or null (FALSE)
    sd_states,       \* this.states: sequence of state elements
    sd_currentState, \* this.currentState: an element, or NoElement for null
    sd_listeners,    \* elements with the click listener of line 311
    sd_active,       \* DOM: state elements whose classList holds "active"
    sd_stateId,      \* DOM: element -> its data-state-id attribute, or Null
    sd_loops,        \* loop -> [state, stateIds, index]: one playSequence() call
    \* ---- RefrigerationCycleController ----
    rc_svg,          \* this.svg is an element (TRUE) or null (FALSE)
    rc_flowPath,     \* this.flowPath is an element (TRUE) or null / undefined (FALSE)
    rc_isAnimating,  \* this.isAnimating
    rc_animationFrame, \* this.animationFrame: a handle, or NoHandle for null
    rc_dashoffset,   \* DOM: flowPath.style.strokeDashoffset, or Unset
    rc_pending,      \* frame callbacks requested and neither run nor cancelled: [handle, offset]
    rc_nextHandle,   \* the handle the next requestAnimationFrame returns
    \* ---- outcome of the last call ----
    op,              \* the last operation: [name, arg], arg a tuple
    threw,           \* the last operation ended in an uncaught TypeError
    log,             \* console.log lines written by the last operation
    events           \* events dispatched by the last operation

fcVars == <<fc_svg, fc_nodes, fc_currentStep, fc_listeners, fc_classList, fc_label, fc_timers>>
sqVars == <<sq_svg, sq_messages, sq_listeners, sq_style, sq_sibling, sq_timers>>
idVars == <<id_svg, id_nodes, id_connections, id_selectedNode, id_config, id_options,
           id_listeners, id_tooltip, id_selected, id_active, id_markup>>
sdVars == <<sd_svg, sd_states, sd_currentState, sd_listeners, sd_active, sd_stateId, sd_loops>>
rcVars == <<rc_svg, rc_flowPath, rc_isAnimating, rc_animationFrame, rc_dashoffset,
           rc_pending, rc_nextHandle>>
obsVars == <<op, threw, log, events>>
vars == <<fcVars, sqVars, idVars, sdVars, rcVars, obsVars>>

\* what the methods of one controller cannot reach: the other controllers
notFlowchart == <<sqVars, idVars, sdVars, rcVars>>
notSequence == <<fcVars, idVars, sdVars, rcVars>>
notInteractive == <<fcVars, sqVars, sdVars, rcVars>>
notState == <<fcVars, sqVars, idVars, rcVars>>
notRefrigeration == <<fcVars, sqVars, idVars, sdVars>>

Range(s) == {s[k] : k \in DOMAIN s}

Elements(n) == 1..n
\* the elements of one kind present in the document

Discover(present, n) == IF present THEN [k \in 1..n |-> k] ELSE <<>>
\* Array.from(this.svg.querySelectorAll(..)) after the `if (!this.svg) return`

Call(name, arg) == [name |-> name, arg |-> arg]

NoOutcome == threw' = FALSE /\ log' = <<>> /\ events' = <<>>

(***************************************************************************)
(* FlowchartController                                                     *)
(***************************************************************************)
HighlightClasses == {"selected", "node-highlighted"}

LabelText(e) == IF e = 1 THEN "Power On" ELSE IF e = 2 THEN "Cool" ELSE "Defrost"

TimerIdle == [state |-> "unused", step |-> 0]

\* constructor + init() against a document with n flowchart nodes
Flowchart_init(present, n) ==
    /\ fc_svg = present
    /\ fc_nodes = Discover(present, n)
    /\ fc_currentStep = 0
    /\ fc_listeners = IF present THEN 0..(n - 1) ELSE {}
    /\ fc_classList = [e \in Elements(n) |-> {}]
    /\ fc_label \in {[e \in Elements(n) |-> IF e \in S THEN LabelText(e) ELSE Null] :
                          S \in SUBSET Elements(n)}
    /\ fc_timers = [r \in 1..MaxRuns |-> TimerIdle]

Flowchart_clearNodes_selectedOnly(cl) ==
    [e \in DOMAIN cl |-> IF e \in Range(fc_nodes) THEN cl[e] \ {"selected"} ELSE cl[e]]

\* this.nodes.forEach(node => classList.remove(..))
Flowchart_clearNodes(cl) ==
    [e \in DOMAIN cl |-> IF e \in Range(fc_nodes) THEN cl[e] \ HighlightClasses ELSE cl[e]]

Flowchart_highlightStep_noClear(index) ==
    /\ fc_classList' =
          IF index + 1 \in DOMAIN fc_nodes
          THEN [fc_classList EXCEPT ![fc_nodes[index + 1]] = @ \cup HighlightClasses]
          ELSE fc_classList
    /\ fc_currentStep' = index

Flowchart_highlightStep(index) ==
    /\ fc_classList' =
          LET cleared == Flowchart_clearNodes(fc_classList)
          IN  IF index + 1 \in DOMAIN fc_nodes
              THEN [cleared EXCEPT ![fc_nodes[index + 1]] = @ \cup HighlightClasses]
              ELSE cleared
    /\ fc_currentStep' = index

\* node.querySelector on an undefined node is a TypeError
Flowchart_showNodeDetail(index) ==
    IF index + 1 \in DOMAIN fc_nodes
    THEN /\ threw' = FALSE
         /\ log' = IF fc_label[fc_nodes[index + 1]] # Null
                   THEN <<fc_label[fc_nodes[index + 1]]>>
                   ELSE <<>>
    ELSE /\ threw' = TRUE
         /\ log' = <<>>

\* With a container the call comes from the listener of line 27, so index is
\* a node's position; on an inert instance it can only be a direct call.
Flowchart_onNodeClick(index) ==
    /\ index \in fc_listeners \/ ~fc_svg
    /\ Flowchart_highlightStep(index)
    /\ Flowchart_showNodeDetail(index)
    /\ op' = Call("Flowchart.onNodeClick", <<index>>)
    /\ events' = <<>>
    /\ UNCHANGED <<fc_svg, fc_nodes, fc_listeners, fc_label, fc_timers, notFlowchart>>

\* playAnimation(): let step = 0; setInterval(.., 1000)
Flowchart_playAnimation(r) ==
    /\ fc_timers[r].state = "unused"
    /\ \A q \in 1..(r - 1) : fc_timers[q].state # "unused"
    /\ fc_timers' = [fc_timers EXCEPT ![r] = [state |-> "running", step |-> 0]]
    /\ op' = Call("Flowchart.playAnimation", <<r>>)
    /\ NoOutcome
    /\ UNCHANGED <<fc_svg, fc_nodes, fc_currentStep, fc_listeners, fc_classList, fc_label, notFlowchart>>

Flowchart_interval_early(r) ==
    /\ fc_timers[r].state = "running"
    /\ IF fc_timers[r].step + 1 >= Len(fc_nodes)
       THEN /\ fc_timers' = [fc_timers EXCEPT ![r].state = "cleared"]
            /\ UNCHANGED <<fc_classList, fc_currentStep>>
       ELSE /\ Flowchart_highlightStep(fc_timers[r].step)
            /\ fc_timers' = [fc_timers EXCEPT ![r].step = @ + 1]
    /\ op' = Call("Flowchart.interval", <<r>>)
    /\ NoOutcome
    /\ UNCHANGED <<fc_svg, fc_nodes, fc_listeners, fc_label, notFlowchart>>

\* one firing of the interval callback of run r
Flowchart_interval(r) ==
    /\ fc_timers[r].state = "running"
    /\ IF fc_timers[r].step >= Len(fc_nodes)
       THEN /\ fc_timers' = [fc_timers EXCEPT ![r].state = "cleared"]
            /\ UNCHANGED <<fc_classList, fc_currentStep>>
       ELSE /\ Flowchart_highlightStep(fc_timers[r].step)
            /\ fc_timers' = [fc_timers EXCEPT ![r].step = @ + 1]
    /\ op' = Call("Flowchart.interval", <<r>>)
    /\ NoOutcome
    /\ UNCHANGED <<fc_svg, fc_nodes, fc_listeners, fc_label, notFlowchart>>

Flowchart_reset_cancels ==
    /\ fc_currentStep' = 0
    /\ fc_classList' = Flowchart_clearNodes(fc_classList)
    /\ fc_timers' = [r \in DOMAIN fc_timers |->
                        IF fc_timers[r].state = "running"
                        THEN [state |-> "cleared", step |-> 0]
                        ELSE fc_timers[r]]
    /\ op' = Call("Flowchart.reset", <<>>)
    /\ NoOutcome
    /\ UNCHANGED <<fc_svg, fc_nodes, fc_listeners, fc_label, notFlowchart>>

Flowchart_reset ==
    /\ fc_currentStep' = 0
    /\ fc_classList' = Flowchart_clearNodes(fc_classList)
    /\ op' = Call("Flowchart.reset", <<>>)
    /\ NoOutcome
    /\ UNCHANGED <<fc_svg, fc_nodes, fc_listeners, fc_label, fc_timers, notFlowchart>>

FlowchartNext ==
    \/ \E index \in 0..(MaxNodes - 1) : Flowchart_onNodeClick(index)
    \/ \E r \in 1..MaxRuns : Flowchart_playAnimation(r)
    \/ \E r \in 1..MaxRuns : Flowchart_interval(r)
    \/ Flowchart_reset

(***************************************************************************)
(* SequenceController                                                      *)
(***************************************************************************)
NoStyle == [stroke |-> "", strokeWidth |-> "", opacity |-> ""]

\* constructor + init() against a document with n sequence messages
Sequence_init(present, n) ==
    /\ sq_svg = present
    /\ sq_messages = Discover(present, n)
    /\ sq_listeners = IF present THEN 0..(n - 1) ELSE {}
    /\ sq_style = [e \in Elements(n) |-> NoStyle]
    /\ sq_sibling \in {[e \in Elements(n) |-> IF e \in S THEN LabelText(e) ELSE Null] :
                            S \in SUBSET Elements(n)}
    /\ sq_timers = [r \in 1..MaxRuns |-> TimerIdle]

\* msg.nextElementSibling on an undefined msg is a TypeError; a sibling that
\* is absent or is no .sequence-label logs nothing (sq_sibling = Null)
Sequence_showMessageDetail(index) ==
    IF index + 1 \in DOMAIN sq_messages
    THEN /\ threw' = FALSE
         /\ log' = IF sq_sibling[sq_messages[index + 1]] # Null
                   THEN <<sq_sibling[sq_messages[index + 1]]>>
                   ELSE <<>>
    ELSE /\ threw' = TRUE
         /\ log' = <<>>

Sequence_highlightMessage(index) ==
    /\ index \in sq_listeners \/ ~sq_svg
    /\ sq_style' =
          IF index + 1 \in DOMAIN sq_messages
          THEN [sq_style EXCEPT ![sq_messages[index + 1]].stroke = "var(--accent-color)",
                                ![sq_messages[index + 1]].strokeWidth = "3"]
          ELSE sq_style
    /\ Sequence_showMessageDetail(index)
    /\ op' = Call("Sequence.highlightMessage", <<index>>)
    /\ events' = <<>>
    /\ UNCHANGED <<sq_svg, sq_messages, sq_listeners, sq_sibling, sq_timers, notSequence>>

Sequence_unhighlightMessage(index) ==
    /\ index \in sq_listeners \/ ~sq_svg
    /\ sq_style' =
          IF index + 1 \in DOMAIN sq_messages
          THEN [sq_style EXCEPT ![sq_messages[index + 1]].stroke = "",
                                ![sq_messages[index + 1]].strokeWidth = ""]
          ELSE sq_style
    /\ op' = Call("Sequence.unhighlightMessage", <<index>>)
    /\ NoOutcome
    /\ UNCHANGED <<sq_svg, sq_messages, sq_listeners, sq_sibling, sq_timers, notSequence>>

\* playSequence(): let index = 0; setInterval(.., 800)
Sequence_playSequence(r) ==
    /\ sq_timers[r].state = "unused"
    /\ \A q \in 1..(r - 1) : sq_timers[q].state # "unused"
    /\ sq_timers' = [sq_timers EXCEPT ![r] = [state |-> "running", step |-> 0]]
    /\ op' = Call("Sequence.playSequence", <<r>>)
    /\ NoOutcome
    /\ UNCHANGED <<sq_svg, sq_messages, sq_listeners, sq_style, sq_sibling, notSequence>>

Sequence_dimOthers_onlyCurrent(index) ==
    [sq_style EXCEPT ![sq_messages[index + 1]].opacity = "1"]

\* this.messages.forEach((msg, i) => msg.style.opacity = i === index ? '1' : '0.3')
Sequence_dimOthers(index) ==
    [e \in DOMAIN sq_style |->
        IF \E i \in 0..(Len(sq_messages) - 1) : sq_messages[i + 1] = e
        THEN [sq_style[e] EXCEPT
                 !.opacity = IF sq_messages[index + 1] = e THEN "1" ELSE "0.3"]
        ELSE sq_style[e]]

Sequence_interval_noClear(r) ==
    /\ sq_timers[r].state = "running"
    /\ IF sq_timers[r].step >= Len(sq_messages)
       THEN /\ sq_timers' = [sq_timers EXCEPT ![r].step = @ + 1]
            /\ UNCHANGED sq_style
       ELSE /\ sq_style' = Sequence_dimOthers(sq_timers[r].step)
            /\ sq_timers' = [sq_timers EXCEPT ![r].step = @ + 1]
    /\ op' = Call("Sequence.interval", <<r>>)
    /\ NoOutcome
    /\ UNCHANGED <<sq_svg, sq_messages, sq_listeners, sq_sibling, notSequence>>

\* one firing of the interval callback of run r
Sequence_interval(r) ==
    /\ sq_timers[r].state = "running"
    /\ IF sq_timers[r].step >= Len(sq_messages)
       THEN /\ sq_timers' = [sq_timers EXCEPT ![r].state = "cleared"]
            /\ UNCHANGED sq_style
       ELSE /\ sq_style' = Sequence_dimOthers(sq_timers[r].step)
            /\ sq_timers' = [sq_timers EXCEPT ![r].step = @ + 1]
    /\ op' = Call("Sequence.interval", <<r>>)
    /\ NoOutcome
    /\ UNCHANGED <<sq_svg, sq_messages, sq_listeners, sq_sibling, notSequence>>

Sequence_reset ==
    /\ sq_style' = [e \in DOMAIN sq_style |->
                       IF e \in Range(sq_messages)
                       THEN [sq_style[e] EXCEPT !.opacity = "1"]
                       ELSE sq_style[e]]
    /\ op' = Call("Sequence.reset", <<>>)
    /\ NoOutcome
    /\ UNCHANGED <<sq_svg, sq_messages, sq_listeners, sq_sibling, sq_timers, notSequence>>

SequenceNext ==
    \/ \E index \in 0..(MaxNodes - 1) : Sequence_highlightMessage(index)
    \/ \E index \in 0..(MaxNodes - 1) : Sequence_unhighlightMessage(index)
    \/ \E r \in 1..MaxRuns : Sequence_playSequence(r)
    \/ \E r \in 1..MaxRuns : Sequence_interval(r)
    \/ Sequence_reset

(***************************************************************************)
(* InteractiveDiagramController                                            *)
(***************************************************************************)
MaxConnections == 2
\* connection elements in one container

NoElement == 0
\* a null element reference

\* What the page may write on a node: data-id, data-label and a nested <text>.
NodeMarkups ==
    { [dataId |-> "n", dataLabel |-> "Compressor", text |-> "C"],
      [dataId |-> Null, dataLabel |-> Null, text |-> "Evaporator"],
      [dataId |-> "n", dataLabel |-> "", text |-> Null] }

\* The configuration records a caller may pass: each option given or left out.
Configs ==
    { [k \in K |-> f[k]] : K \in SUBSET {"showTooltip", "highlightConnections"},
                           f \in [{"showTooltip", "highlightConnections"} -> BOOLEAN] }

Interactive_options_defaultsLast(options) ==
    [k \in {"showTooltip", "highlightConnections"} |-> TRUE]

\* { showTooltip: true, highlightConnections: true, ...options }
Interactive_options(options) ==
    [k \in {"showTooltip", "highlightConnections"} |->
        IF k \in DOMAIN options THEN options[k] ELSE TRUE]

NoTooltip ==
    [created |-> FALSE, opacity |-> "", rectOpacity |-> "", textOpacity |-> "",
     text |-> "", at |-> NoElement]

\* createTooltip(): a <g> holding a <rect> and an empty <text>, appended to the svg
Interactive_createTooltip == [NoTooltip EXCEPT !.created = TRUE]

\* constructor + init() against a document with n nodes and c connections
Interactive_init(present, n, c, options) ==
    /\ id_svg = present
    /\ id_selectedNode = NoElement
    /\ id_config = options
    /\ id_options = Interactive_options(options)
    /\ id_tooltip = IF present /\ Interactive_options(options).showTooltip
                    THEN Interactive_createTooltip
                    ELSE NoTooltip
    /\ id_nodes = Discover(present, n)
    /\ id_connections = Discover(present, c)
    /\ id_listeners = IF present THEN Elements(n) ELSE {}
    /\ id_selected = {}
    /\ id_active = {}
    /\ id_markup \in [Elements(n) -> NodeMarkups]

Interactive_deselectPrior_skipped(selected) == selected

\* if (this.selectedNode) this.selectedNode.classList.remove('selected')
Interactive_deselectPrior(selected) ==
    IF id_selectedNode # NoElement THEN selected \ {id_selectedNode} ELSE selected

\* marks every connection, whichever node was clicked
Interactive_highlightRelatedConnections(node) == id_active \cup Range(id_connections)

Interactive_emitEvent_early(eventName, data) ==
    IF id_svg
    THEN /\ threw' = FALSE
         /\ events' = <<[type |-> eventName, detail |-> data,
                         seen |-> [selectedNode |-> id_selectedNode,
                                   active |-> id_active]]>>
    ELSE /\ threw' = TRUE
         /\ events' = <<>>

\* this.svg.dispatchEvent on a null svg is a TypeError, raised before any
\* dispatch.  dispatchEvent runs the container's listeners synchronously, as
\* the last statement of onNodeClick: `seen` is what such a listener reads
\* from the controller and the connections while it handles the event.
Interactive_emitEvent(eventName, data) ==
    IF id_svg
    THEN /\ threw' = FALSE
         /\ events' = <<[type |-> eventName, detail |-> data,
                         seen |-> [selectedNode |-> id_selectedNode',
                                   active |-> id_active']]>>
    ELSE /\ threw' = TRUE
         /\ events' = <<>>

\* With a container the call comes from the listener of line 204; on an inert
\* instance it can only be a direct call, with any element of the document.
Interactive_onNodeClick(node) ==
    /\ node \in DOMAIN id_markup
    /\ node \in id_listeners \/ ~id_svg
    /\ id_selected' = Interactive_deselectPrior(id_selected) \cup {node}
    /\ id_selectedNode' = node
    /\ id_active' = IF id_options.highlightConnections
                    THEN Interactive_highlightRelatedConnections(node)
                    ELSE id_active
    /\ Interactive_emitEvent("diagram:nodeSelected",
                             [node |-> node, id |-> id_markup[node].dataId])
    /\ op' = Call("Interactive.onNodeClick", <<node>>)
    /\ log' = <<>>
    /\ UNCHANGED <<id_svg, id_nodes, id_connections, id_config, id_options, id_listeners,
                   id_tooltip, id_markup, notInteractive>>

Truthy(v) == v # Null /\ v # ""

\* node.getAttribute('data-label') || node.querySelector('text')?.textContent || ''
Interactive_label(node) ==
    IF Truthy(id_markup[node].dataLabel) THEN id_markup[node].dataLabel
    ELSE IF Truthy(id_markup[node].text) THEN id_markup[node].text
    ELSE ""

\* the translate(..) of line 248 is kept as the node the tooltip is placed at
Interactive_onNodeHover(node) ==
    /\ node \in DOMAIN id_markup
    /\ node \in id_listeners \/ ~id_svg
    /\ id_tooltip' =
          IF id_options.showTooltip /\ id_tooltip.created
          THEN [created |-> TRUE, opacity |-> "1", rectOpacity |-> "1",
                textOpacity |-> "1", text |-> Interactive_label(node), at |-> node]
          ELSE id_tooltip
    /\ op' = Call("Interactive.onNodeHover", <<node>>)
    /\ NoOutcome
    /\ UNCHANGED <<id_svg, id_nodes, id_connections, id_selectedNode, id_config, id_options,
                   id_listeners, id_selected, id_active, id_markup, notInteractive>>

Interactive_onNodeLeave_groupOnly(node) ==
    /\ node \in DOMAIN id_markup
    /\ node \in id_listeners \/ ~id_svg
    /\ id_tooltip' =
          IF id_tooltip.created
          THEN [id_tooltip EXCEPT !.opacity = "0"]
          ELSE id_tooltip
    /\ op' = Call("Interactive.onNodeLeave", <<node>>)
    /\ NoOutcome
    /\ UNCHANGED <<id_svg, id_nodes, id_connections, id_selectedNode, id_config, id_options,
                   id_listeners, id_selected, id_active, id_markup, notInteractive>>

Interactive_onNodeLeave(node) ==
    /\ node \in DOMAIN id_markup
    /\ node \in id_listeners \/ ~id_svg
    /\ id_tooltip' =
          IF id_tooltip.created
          THEN [id_tooltip EXCEPT !.opacity = "0", !.rectOpacity = "0", !.textOpacity = "0"]
          ELSE id_tooltip
    /\ op' = Call("Interactive.onNodeLeave", <<node>>)
    /\ NoOutcome
    /\ UNCHANGED <<id_svg, id_nodes, id_connections, id_selectedNode, id_config, id_options,
                   id_listeners, id_selected, id_active, id_markup, notInteractive>>

Interactive_getSelectedNode == id_selectedNode

Interactive_reset_keepConnections == id_active

\* this.connections.forEach(conn => conn.classList.remove('active'))
Interactive_reset_connections == id_active \ Range(id_connections)

Interactive_reset ==
    /\ id_selected' = Interactive_deselectPrior(id_selected)
    /\ id_selectedNode' = NoElement
    /\ id_active' = Interactive_reset_connections
    /\ op' = Call("Interactive.reset", <<>>)
    /\ NoOutcome
    /\ UNCHANGED <<id_svg, id_nodes, id_connections, id_config, id_options, id_listeners,
                   id_tooltip, id_markup, notInteractive>>

InteractiveNext ==
    \/ \E node \in 1..MaxNodes : Interactive_onNodeClick(node)
    \/ \E node \in 1..MaxNodes : Interactive_onNodeHover(node)
    \/ \E node \in 1..MaxNodes : Interactive_onNodeLeave(node)
    \/ Interactive_reset

(***************************************************************************)
(* StateDiagramController                                                  *)
(***************************************************************************)
MaxLoops == 1
\* playSequence() calls of one state controller
MaxListLen == 2
\* length of the stateIds list passed to playSequence()

StateIds == {"idle", "cooling"}
\* identifiers a caller may list; a state element may carry one of them or none

StateIdLists == UNION {[1..len -> StateIds] : len \in 0..MaxListLen}

LoopIdle == [state |-> "unused", stateIds |-> <<>>, index |-> 0]

\* constructor + init() against a document with n state elements
State_init(present, n) ==
    /\ sd_svg = present
    /\ sd_states = Discover(present, n)
    /\ sd_currentState = NoElement
    /\ sd_listeners = IF present THEN Elements(n) ELSE {}
    /\ sd_active \in SUBSET Elements(n)
    /\ sd_stateId \in [Elements(n) -> StateIds \cup {Null}]
    /\ sd_loops = [r \in 1..MaxLoops |-> LoopIdle]

State_clearActive_none(active) == active

\* this.states.forEach(s => s.classList.remove('active'))
State_clearActive(active) == active \ Range(sd_states)

\* this.svg.dispatchEvent on a null svg is a TypeError, raised before any dispatch
State_dispatch(stateId) ==
    IF sd_svg
    THEN /\ threw' = FALSE
         /\ events' = <<[type |-> "stateChanged", detail |-> [stateId |-> stateId]]>>
    ELSE /\ threw' = TRUE
         /\ events' = <<>>

\* the body of transitionTo(stateElement)
State_transition(stateElement) ==
    /\ sd_active' = State_clearActive(sd_active) \cup {stateElement}
    /\ sd_currentState' = stateElement
    /\ State_dispatch(sd_stateId[stateElement])

\* A click on a state (line 311) or a direct call; on an inert instance only
\* a direct call, with any element of the document.
State_transitionTo(stateElement) ==
    /\ stateElement \in DOMAIN sd_stateId
    /\ stateElement \in sd_listeners \/ ~sd_svg
    /\ State_transition(stateElement)
    /\ op' = Call("State.transitionTo", <<stateElement>>)
    /\ log' = <<>>
    /\ UNCHANGED <<sd_svg, sd_states, sd_listeners, sd_stateId, sd_loops, notState>>

State_getCurrentState == sd_currentState

\* this.states.find(s => s.getAttribute('data-state-id') === id): the first
\* match in document order, NoElement when there is none.  An entry past the
\* end of the list is undefined, which no attribute value equals.
State_find(id) ==
    LET hits == {k \in DOMAIN sd_states : id # Null /\ sd_stateId[sd_states[k]] = id}
    IN  IF hits = {} THEN NoElement
        ELSE sd_states[CHOOSE k \in hits : \A j \in hits : k <= j]

State_wrap_never(stateIds, index) == index

\* if (index >= stateIds.length) index = 0
State_wrap(stateIds, index) == IF index >= Len(stateIds) THEN 0 ELSE index

\* one run of play() of loop r over stateIds, entered with closure variable index
State_play(r, stateIds, index) ==
    LET at == State_wrap(stateIds, index)
        id == IF at + 1 \in DOMAIN stateIds THEN stateIds[at + 1] ELSE Null
        state == State_find(id)
    IN  /\ IF state # NoElement
           THEN State_transition(state)
           ELSE /\ UNCHANGED <<sd_active, sd_currentState>>
                /\ threw' = FALSE
                /\ events' = <<>>
        /\ sd_loops' = [sd_loops EXCEPT
                           ![r] = [state |-> "scheduled", stateIds |-> stateIds,
                                   index |-> at + 1]]
        /\ op' = Call("State.play", <<r, at>>)
        /\ log' = <<>>
        /\ UNCHANGED <<sd_svg, sd_states, sd_listeners, sd_stateId, notState>>

\* playSequence(stateIds, interval): let index = 0; play()
State_playSequence(r, stateIds) ==
    /\ sd_loops[r].state = "unused"
    /\ \A q \in 1..(r - 1) : sd_loops[q].state # "unused"
    /\ State_play(r, stateIds, 0)

\* the setTimeout(play, interval) of loop r fires
State_timeout(r) ==
    /\ sd_loops[r].state = "scheduled"
    /\ State_play(r, sd_loops[r].stateIds, sd_loops[r].index)

StateNext ==
    \/ \E stateElement \in 1..MaxNodes : State_transitionTo(stateElement)
    \/ \E r \in 1..MaxLoops, stateIds \in StateIdLists : State_playSequence(r, stateIds)
    \/ \E r \in 1..MaxLoops : State_timeout(r)

(***************************************************************************)
(* RefrigerationCycleController                                            *)
(***************************************************************************)
MaxFrames == 52
\* requestAnimationFrame calls followed; a browser's handle counter is unbounded

DashModulus == 100
DashStep == 2

NoHandle == 0
\* this.animationFrame = null; the handles a browser returns are positive

Unset == -1
\* no inline stroke-dashoffset on the flow path

\* constructor + init(): this.flowPath is undefined without a container and
\* null when the container holds no .refrigerant-flow
Refrigeration_init(present, flow) ==
    /\ rc_svg = present
    /\ rc_flowPath = (present /\ flow)
    /\ rc_isAnimating = FALSE
    /\ rc_animationFrame = NoHandle
    /\ rc_dashoffset = Unset
    /\ rc_pending = {}
    /\ rc_nextHandle = 1

Refrigeration_advance_noWrap(offset) == offset + DashStep

\* offset = (offset + 2) % 100
Refrigeration_advance(offset) == (offset + DashStep) % DashModulus

\* One run of animate(): `running` is this.isAnimating on entry, `offset` the
\* closure's counter, `pending` the callbacks still requested.
Refrigeration_animate(running, offset, pending) ==
    IF ~running \/ ~rc_flowPath
    THEN /\ rc_isAnimating' = FALSE
         /\ rc_pending' = pending
         /\ UNCHANGED <<rc_dashoffset, rc_animationFrame, rc_nextHandle>>
    ELSE /\ rc_nextHandle <= MaxFrames
         /\ rc_isAnimating' = running
         /\ rc_dashoffset' = Refrigeration_advance(offset)
         /\ rc_animationFrame' = rc_nextHandle
         /\ rc_pending' = pending \cup {[handle |-> rc_nextHandle,
                                         offset |-> Refrigeration_advance(offset)]}
         /\ rc_nextHandle' = rc_nextHandle + 1

Refrigeration_start_always == Refrigeration_animate(TRUE, 0, rc_pending)

\* the body of startAnimation(): let offset = 0; animate()
Refrigeration_start ==
    IF rc_isAnimating
    THEN UNCHANGED <<rc_isAnimating, rc_dashoffset, rc_animationFrame, rc_pending,
                     rc_nextHandle>>
    ELSE Refrigeration_animate(TRUE, 0, rc_pending)

Refrigeration_cancel_none(handle) == rc_pending

\* cancelAnimationFrame(handle)
Refrigeration_cancel(handle) == {cb \in rc_pending : cb.handle # handle}

\* the body of stopAnimation()
Refrigeration_stop ==
    /\ rc_isAnimating' = FALSE
    /\ rc_pending' = IF rc_animationFrame # NoHandle
                     THEN Refrigeration_cancel(rc_animationFrame)
                     ELSE rc_pending
    /\ UNCHANGED <<rc_dashoffset, rc_animationFrame, rc_nextHandle>>

Refrigeration_startAnimation ==
    /\ Refrigeration_start
    /\ op' = Call("Refrigeration.startAnimation", <<>>)
    /\ NoOutcome
    /\ UNCHANGED <<rc_svg, rc_flowPath, notRefrigeration>>

Refrigeration_stopAnimation ==
    /\ Refrigeration_stop
    /\ op' = Call("Refrigeration.stopAnimation", <<>>)
    /\ NoOutcome
    /\ UNCHANGED <<rc_svg, rc_flowPath, notRefrigeration>>

Refrigeration_toggleAnimation_alwaysStart ==
    /\ Refrigeration_start
    /\ op' = Call("Refrigeration.toggleAnimation", <<>>)
    /\ NoOutcome
    /\ UNCHANGED <<rc_svg, rc_flowPath, notRefrigeration>>

Refrigeration_toggleAnimation ==
    /\ IF rc_isAnimating THEN Refrigeration_stop ELSE Refrigeration_start
    /\ op' = Call("Refrigeration.toggleAnimation", <<>>)
    /\ NoOutcome
    /\ UNCHANGED <<rc_svg, rc_flowPath, notRefrigeration>>

\* the browser runs the requested frame callback cb
Refrigeration_frame(cb) ==
    /\ cb \in rc_pending
    /\ Refrigeration_animate(rc_isAnimating, cb.offset, rc_pending \ {cb})
    /\ op' = Call("Refrigeration.frame", <<cb.handle>>)
    /\ NoOutcome
    /\ UNCHANGED <<rc_svg, rc_flowPath, notRefrigeration>>

RefrigerationNext ==
    \/ Refrigeration_startAnimation
    \/ Refrigeration_stopAnimation
    \/ Refrigeration_toggleAnimation
    \/ \E cb \in rc_pending : Refrigeration_frame(cb)

(***************************************************************************)
(* Specifications: one per controller, the other controllers inert, and    *)
(* one of all five controllers built against a missing container.          *)
(***************************************************************************)
ObsInit ==
    /\ op = Call("constructor", <<>>)
    /\ threw = FALSE
    /\ log = <<>>
    /\ events = <<>>

InitFlowchart ==
    /\ \E n \in 0..MaxNodes : Flowchart_init(TRUE, n)
    /\ Sequence_init(FALSE, 0)
    /\ Interactive_init(FALSE, 0, 0, <<>>)
    /\ State_init(FALSE, 0)
    /\ Refrigeration_init(FALSE, FALSE)
    /\ ObsInit

SpecFlowchart == InitFlowchart /\ [][FlowchartNext]_vars

InitSequence ==
    /\ Flowchart_init(FALSE, 0)
    /\ \E n \in 0..MaxNodes : Sequence_init(TRUE, n)
    /\ Interactive_init(FALSE, 0, 0, <<>>)
    /\ State_init(FALSE, 0)
    /\ Refrigeration_init(FALSE, FALSE)
    /\ ObsInit

SpecSequence == InitSequence /\ [][SequenceNext]_vars

\* A page that holds one of the two diagrams with scripted playback.  The
\* controllers share no state (each reaches only the elements under its own
\* container), so the behaviours followed are those of a flowchart controller
\* alone and those of a sequence controller alone.
InitPlayback ==
    /\ \E n \in 0..MaxNodes :
          \/ Flowchart_init(TRUE, n) /\ Sequence_init(FALSE, 0)
          \/ Flowchart_init(FALSE, 0) /\ Sequence_init(TRUE, n)
    /\ Interactive_init(FALSE, 0, 0, <<>>)
    /\ State_init(FALSE, 0)
    /\ Refrigeration_init(FALSE, FALSE)
    /\ ObsInit

\* the listeners, timers and calls of whichever controller has its container
PlaybackNext ==
    \/ \E index \in 0..(MaxNodes - 1) : fc_svg /\ Flowchart_onNodeClick(index)
    \/ \E r \in 1..MaxRuns : fc_svg /\ Flowchart_playAnimation(r)
    \/ \E r \in 1..MaxRuns : fc_svg /\ Flowchart_interval(r)
    \/ fc_svg /\ Flowchart_reset
    \/ \E index \in 0..(MaxNodes - 1) : sq_svg /\ Sequence_highlightMessage(index)
    \/ \E index \in 0..(MaxNodes - 1) : sq_svg /\ Sequence_unhighlightMessage(index)
    \/ \E r \in 1..MaxRuns : sq_svg /\ Sequence_playSequence(r)
    \/ \E r \in 1..MaxRuns : sq_svg /\ Sequence_interval(r)
    \/ sq_svg /\ Sequence_reset

SpecPlayback == InitPlayback /\ [][PlaybackNext]_vars

InitInteractive ==
    /\ Flowchart_init(FALSE, 0)
    /\ Sequence_init(FALSE, 0)
    /\ \E n \in 0..MaxNodes, c \in 0..MaxConnections, options \in Configs :
          Interactive_init(TRUE, n, c, options)
    /\ State_init(FALSE, 0)
    /\ Refrigeration_init(FALSE, FALSE)
    /\ ObsInit

SpecInteractive == InitInteractive /\ [][InteractiveNext]_vars

InitState ==
    /\ Flowchart_init(FALSE, 0)
    /\ Sequence_init(FALSE, 0)
    /\ Interactive_init(FALSE, 0, 0, <<>>)
    /\ \E n \in 0..MaxNodes : State_init(TRUE, n)
    /\ Refrigeration_init(FALSE, FALSE)
    /\ ObsInit

SpecState == InitState /\ [][StateNext]_vars

\* play() never reads which states the page marked "active", and a state
\* without data-state-id is to find() as if it were not there: the loops are
\* followed over documents of 0..MaxNodes states that all carry an identifier
\* (two states may carry the same one) and no mark.
InitStateLoops ==
    /\ InitState
    /\ sd_active = {}
    /\ \A e \in DOMAIN sd_stateId : sd_stateId[e] # Null

\* every setTimeout that is scheduled fires
FairSpecState ==
    /\ InitStateLoops
    /\ [][StateNext]_vars
    /\ \A r \in 1..MaxLoops : WF_vars(State_timeout(r))

InitRefrigeration ==
    /\ Flowchart_init(FALSE, 0)
    /\ Sequence_init(FALSE, 0)
    /\ Interactive_init(FALSE, 0, 0, <<>>)
    /\ State_init(FALSE, 0)
    /\ \E flow \in BOOLEAN : Refrigeration_init(TRUE, flow)
    /\ ObsInit

SpecRefrigeration == InitRefrigeration /\ [][RefrigerationNext]_vars

\* All five controllers constructed with a container id the document does not
\* hold.  The document's other elements exist and can be passed to the methods
\* that take an element; what the page wrote on them cannot matter to a
\* controller that never discovered them, so one markup is followed.
InitInert ==
    /\ Flowchart_init(FALSE, 0)
    /\ Sequence_init(FALSE, 0)
    /\ \E options \in Configs : Interactive_init(FALSE, MaxNodes, 0, options)
    /\ \A e \in Elements(MaxNodes) : id_markup[e].dataLabel = "Compressor"
    /\ State_init(FALSE, MaxNodes)
    /\ sd_active = {}
    /\ \A e \in Elements(MaxNodes) : sd_stateId[e] = "idle"
    /\ Refrigeration_init(FALSE, FALSE)
    /\ ObsInit

\* The public methods and the timers they start.  An inert controller holds no
\* element, so what a call does cannot depend on which index, element or list
\* it is given, nor on how many timers run: one value of each is followed.  No
\* frame callback is ever requested without a flow path, so Refrigeration_frame
\* cannot occur.
NextInert ==
    \/ Flowchart_onNodeClick(0)
    \/ Flowchart_playAnimation(1)
    \/ Flowchart_interval(1)
    \/ Flowchart_reset
    \/ Sequence_highlightMessage(0)
    \/ Sequence_unhighlightMessage(0)
    \/ Sequence_playSequence(1)
    \/ Sequence_interval(1)
    \/ Sequence_reset
    \/ \E node \in 1..MaxNodes : Interactive_onNodeClick(node)
    \/ Interactive_onNodeHover(1)
    \/ Interactive_onNodeLeave(1)
    \/ Interactive_reset
    \/ \E stateElement \in 1..MaxNodes : State_transitionTo(stateElement)
    \/ \E stateIds \in {<<>>, <<"idle">>} : State_playSequence(1, stateIds)
    \/ State_timeout(1)
    \/ Refrigeration_startAnimation
    \/ Refrigeration_stopAnimation
    \/ Refrigeration_toggleAnimation

SpecInert == InitInert /\ [][NextInert]_vars

(***************************************************************************)
(* Properties                                                              *)
(***************************************************************************)

\* C1 (SpecInteractive): at most one node carries "selected", and
\* getSelectedNode() is exactly that node, or null when no node carries it.
C1_SingleSelection ==
    /\ Cardinality(id_selected) <= 1
    /\ id_selected = IF Interactive_getSelectedNode = NoElement
                     THEN {}
                     ELSE {Interactive_getSelectedNode}

\* node 2 was clicked while the tooltip still sits at node 1: only 2 is selected
C1_Witness ==
    /\ op = Call("Interactive.onNodeClick", <<2>>)
    /\ id_selected = {2}
    /\ Interactive_getSelectedNode = 2
    /\ id_tooltip.at = 1

TransitionedTo(S) ==
    /\ sd_active = {S}
    /\ State_getCurrentState = S
    /\ events = <<[type |-> "stateChanged", detail |-> [stateId |-> sd_stateId[S]]]>>

\* the list entry at position at, undefined (Null) past the end of the list
Entry(stateIds, at) == IF at + 1 \in DOMAIN stateIds THEN stateIds[at + 1] ELSE Null

\* the state the tick recorded in op transitioned to, NoElement when its entry matched none
PlayTarget ==
    State_find(Entry(sd_loops[op.arg[1]].stateIds, op.arg[2]))

\* C2 (SpecState): after every transitionTo(S), from a click, a direct call or a
\* playSequence tick, S is the only active state element, getCurrentState() is
\* S, and the call dispatched exactly one stateChanged event carrying S's
\* identifier; also when S was the current state already.
C2_TransitionExclusive ==
    /\ op.name = "State.transitionTo" => TransitionedTo(op.arg[1])
    /\ op.name = "State.play" /\ PlayTarget # NoElement => TransitionedTo(PlayTarget)

\* a click on state 1 while a playSequence loop is scheduled
C2_Witness ==
    /\ op = Call("State.transitionTo", <<1>>)
    /\ TransitionedTo(1)
    /\ Cardinality(DOMAIN sd_stateId) >= 2
    /\ sd_loops[1].state = "scheduled"

\* C3 (SpecRefrigeration): at most one frame callback of the controller is
\* pending, whatever the interleaving of start, stop, toggle and frames.
C3_OneFrameLoop == Cardinality(rc_pending) <= 1

\* startAnimation() called on a running animation (the offset is past its
\* first value, so this call did not begin the loop)
C3_Witness ==
    /\ op = Call("Refrigeration.startAnimation", <<>>)
    /\ rc_isAnimating
    /\ rc_dashoffset > DashStep
    /\ Cardinality(rc_pending) = 1

ExactlyLastHighlighted ==
    \A e \in Range(fc_nodes) :
        fc_classList[e] = IF e = fc_nodes[Len(fc_nodes)] THEN HighlightClasses ELSE {}

Completes(r) == fc_timers[r].state = "running" /\ fc_timers'[r].state = "cleared"

\* C4 as claimed (SpecFlowchart): whenever a playAnimation() run clears its
\* timer, exactly the last node carries the highlight classes.
C4_Original ==
    [][\A r \in 1..MaxRuns : Completes(r) => ExactlyLastHighlighted']_vars

\* C4 amended (SpecFlowchart): when nothing else acts on the controller between
\* a run's last marking tick and the tick that clears its timer, exactly the
\* last node carries the highlight classes at the moment the run completes.
C4_UndisturbedCompletion ==
    [][\A r \in 1..MaxRuns :
          Completes(r) /\ op = Call("Flowchart.interval", <<r>>)
             => ExactlyLastHighlighted']_vars

\* run 1 has completed, a second run is still going, and the last node alone is highlighted
C4_Witness ==
    /\ op = Call("Flowchart.interval", <<1>>)
    /\ fc_timers[1].state = "cleared"
    /\ fc_timers[2].state = "running"
    /\ Len(fc_nodes) >= 2
    /\ ExactlyLastHighlighted
    /\ fc_classList[fc_nodes[Len(fc_nodes)]] = HighlightClasses

ExactlyOneFull ==
    \E e \in Range(sq_messages) :
        /\ sq_style[e].opacity = "1"
        /\ \A o \in Range(sq_messages) \ {e} : sq_style[o].opacity = "0.3"

AllFull == \A e \in Range(sq_messages) : sq_style[e].opacity = "1"

\* C5 as claimed (SpecSequence): from the playSequence() call until the run's
\* timer is cleared, exactly one message has opacity 1 and the others 0.3.
C5_Original ==
    \A r \in 1..MaxRuns :
        sq_timers[r].state = "running" /\ Len(sq_messages) > 0 => ExactlyOneFull

\* C5 amended (SpecSequence): every marking tick of a run leaves exactly one
\* message at opacity 1 and the others at 0.3, and that lasts until reset() is
\* called; so it holds from the run's first tick (not from the call) until the
\* timer is cleared, as long as reset() is not called in between.  reset()
\* leaves every message at opacity 1.
C5_DimmedFromFirstTick ==
    [][/\ \A r \in 1..MaxRuns :
             /\ op' = Call("Sequence.interval", <<r>>)
             /\ sq_timers[r].step < Len(sq_messages)
             => ExactlyOneFull'
       /\ ExactlyOneFull /\ op'.name # "Sequence.reset" => ExactlyOneFull'
       /\ op'.name = "Sequence.reset" => AllFull']_vars

\* the second tick of a run over two or more messages
C5_Witness ==
    /\ op = Call("Sequence.interval", <<1>>)
    /\ sq_timers[1] = [state |-> "running", step |-> 2]
    /\ Len(sq_messages) >= 2
    /\ sq_style[sq_messages[2]].opacity = "1"
    /\ sq_style[sq_messages[1]].opacity = "0.3"

\* C6 as claimed (SpecInert): on controllers built against a missing container
\* no listener is attached, no call throws and no element is modified.
C6_InertIsSafe ==
    /\ ~threw
    /\ fc_listeners = {} /\ sq_listeners = {} /\ id_listeners = {} /\ sd_listeners = {}
    /\ id_selected = {} /\ id_active = {} /\ sd_active = {}
    /\ \A e \in DOMAIN fc_classList : fc_classList[e] = {}
    /\ \A e \in DOMAIN sq_style : sq_style[e] = NoStyle
    /\ ~id_tooltip.created
    /\ rc_dashoffset = Unset

\* the tick that op records belongs to loop r and visited position at of its list
Visited(r, at) == op = Call("State.play", <<r, at>>)

\* the list position after position at, wrapping after the last
NextPosition(stateIds, at) == IF at + 1 >= Len(stateIds) THEN 0 ELSE at + 1

\* Every step taken while loop r is scheduled keeps it scheduled over the same
\* list, and a tick of r visits the position after the one it visited last (the
\* first position on the first tick), moves to the first state carrying that
\* entry's identifier, or moves nothing when no state carries it.
LoopStep(r) ==
    /\ sd_loops[r].state = "scheduled"
       => /\ sd_loops'[r].state = "scheduled"
          /\ sd_loops'[r].stateIds = sd_loops[r].stateIds
    /\ op'.name = "State.play" /\ op'.arg[1] = r
       => LET ids == sd_loops'[r].stateIds
              at == op'.arg[2]
              target == State_find(Entry(ids, at))
          IN  /\ sd_loops'[r].state = "scheduled"
              /\ at = IF sd_loops[r].state = "scheduled"
                      THEN NextPosition(ids, sd_loops[r].index - 1)
                      ELSE 0
              /\ sd_loops'[r].index = at + 1
              /\ IF target # NoElement
                 THEN /\ sd_stateId[target] = ids[at + 1]
                      /\ sd_currentState' = target
                      /\ sd_active' = {target}
                 ELSE /\ UNCHANGED <<sd_active, sd_currentState>>
                      /\ events' = <<>>

\* C7 (FairSpecState): playSequence cycles through its list in order, wrapping
\* after the last entry; a tick whose entry matches no state moves nothing but
\* still advances and reschedules; the loop never stops; and every entry that
\* matches a state is transitioned to again and again.
C7_CyclesForever ==
    /\ [][\A r \in 1..MaxLoops : LoopStep(r)]_vars
    /\ \A r \in 1..MaxLoops : \A at \in 0..(MaxListLen - 1) :
          <>[](/\ sd_loops[r].state = "scheduled"
               /\ State_find(Entry(sd_loops[r].stateIds, at)) # NoElement)
          => []<>(/\ Visited(r, at)
                  /\ sd_currentState = State_find(Entry(sd_loops[r].stateIds, at)))

\* a tick at the second position of a two-entry list whose entry matches no state
C7_Witness ==
    /\ Visited(1, 1)
    /\ Len(sd_loops[1].stateIds) = 2
    /\ State_find(Entry(sd_loops[1].stateIds, 0)) # NoElement
    /\ State_find(Entry(sd_loops[1].stateIds, 1)) = NoElement
    /\ events = <<>>

\* C8 (SpecRefrigeration): stopAnimation() leaves the running flag false and no
\* frame callback pending, and while the flag is false the dash offset changes
\* only in a call that starts the animation.
C8_StopCancels ==
    [][/\ op'.name = "Refrigeration.stopAnimation"
          => ~rc_isAnimating' /\ rc_pending' = {}
       /\ ~rc_isAnimating
          /\ op'.name \notin {"Refrigeration.startAnimation", "Refrigeration.toggleAnimation"}
          => rc_dashoffset' = rc_dashoffset /\ rc_pending' = {}]_vars

\* stopAnimation() called on a running animation that had requested frames
C8_Witness ==
    /\ op = Call("Refrigeration.stopAnimation", <<>>)
    /\ rc_animationFrame # NoHandle
    /\ rc_dashoffset > DashStep
    /\ ~rc_isAnimating
    /\ rc_pending = {}

\* C9 (SpecFlowchart): a click on node i leaves the highlight classes on node i
\* and on no other node, records i as the current step, and logs the node's
\* label when it has a label element and nothing otherwise.
C9_ClickHighlightsOnly ==
    op.name = "Flowchart.onNodeClick" =>
        LET node == fc_nodes[op.arg[1] + 1]
        IN  /\ \A e \in Range(fc_nodes) :
                  fc_classList[e] = IF e = node THEN HighlightClasses ELSE {}
            /\ fc_currentStep = op.arg[1]
            /\ log = IF fc_label[node] # Null THEN <<fc_label[node]>> ELSE <<>>
            /\ ~threw

\* the second node, labelled "Cool", clicked while a playAnimation() run is past its first tick
C9_Witness ==
    /\ op = Call("Flowchart.onNodeClick", <<1>>)
    /\ log = <<"Cool">>
    /\ fc_classList[2] = HighlightClasses
    /\ fc_classList[1] = {}
    /\ fc_timers[1] = [state |-> "running", step |-> 1]

\* C10 (SpecInteractive): after reset() no node carries "selected",
\* getSelectedNode() is null and no connection carries "active"; after a click
\* with highlightConnections enabled every connection carries "active".
C10_ResetClears ==
    /\ op.name = "Interactive.reset"
       => /\ id_selected = {}
          /\ Interactive_getSelectedNode = NoElement
          /\ id_active = {}
    /\ op.name = "Interactive.onNodeClick" /\ id_options.highlightConnections
       => id_active = Range(id_connections)

\* a click on node 2 of a diagram with two connections lit both
C10_Witness ==
    /\ op = Call("Interactive.onNodeClick", <<2>>)
    /\ id_options.highlightConnections
    /\ Len(id_connections) = 2
    /\ id_active = {1, 2}
    /\ id_selected = {2}

\* only the element at position step of the flowchart carries the highlight classes
OnlyNodeMarked(cl, step) ==
    \A e \in Range(fc_nodes) :
        cl[e] = IF e = fc_nodes[step + 1] THEN HighlightClasses ELSE {}

\* the message at position step has opacity 1 and every other message 0.3
OnlyMessageFull(style, step) ==
    \A e \in Range(sq_messages) :
        style[e].opacity = IF e = sq_messages[step + 1] THEN "1" ELSE "0.3"

\* one step of the program as seen by run r of playAnimation()
FlowchartRunStep(r) ==
    LET t == fc_timers[r]
        n == Len(fc_nodes)
        tick == op' = Call("Flowchart.interval", <<r>>)
    IN  /\ op' = Call("Flowchart.playAnimation", <<r>>)
           => /\ fc_timers'[r] = [state |-> "running", step |-> 0]
              /\ UNCHANGED <<fc_classList, fc_currentStep>>
        /\ tick /\ t.step < n
           => /\ t.state = "running"
              /\ fc_timers'[r] = [state |-> "running", step |-> t.step + 1]
              /\ OnlyNodeMarked(fc_classList', t.step)
              /\ fc_currentStep' = t.step
        /\ tick /\ t.step >= n
           => /\ t.state = "running"
              /\ t.step = n
              /\ fc_timers'[r] = [state |-> "cleared", step |-> n]
              /\ UNCHANGED <<fc_classList, fc_currentStep>>
        /\ t.state = "cleared" => ~tick /\ fc_timers'[r] = t
        /\ t.state = "running" /\ ~tick => fc_timers'[r] = t

\* one step of the program as seen by run r of playSequence()
SequenceRunStep(r) ==
    LET t == sq_timers[r]
        n == Len(sq_messages)
        tick == op' = Call("Sequence.interval", <<r>>)
    IN  /\ op' = Call("Sequence.playSequence", <<r>>)
           => /\ sq_timers'[r] = [state |-> "running", step |-> 0]
              /\ UNCHANGED sq_style
        /\ tick /\ t.step < n
           => /\ t.state = "running"
              /\ sq_timers'[r] = [state |-> "running", step |-> t.step + 1]
              /\ OnlyMessageFull(sq_style', t.step)
        /\ tick /\ t.step >= n
           => /\ t.state = "running"
              /\ t.step = n
              /\ sq_timers'[r] = [state |-> "cleared", step |-> n]
              /\ UNCHANGED sq_style
        /\ t.state = "cleared" => ~tick /\ sq_timers'[r] = t
        /\ t.state = "running" /\ ~tick => sq_timers'[r] = t

\* C11 (SpecPlayback): a run of playAnimation() / playSequence() over n elements
\* starts with its cursor at 0; each of its ticks marks the element at the
\* cursor and moves the cursor on by one, so elements 0 .. n-1 are marked in
\* order, one per tick; the tick that finds the cursor at n (tick n+1, the
\* first tick when n = 0) marks nothing and clears the timer; a cleared run
\* never ticks again; and nothing but the run's own tick moves its cursor.
C11_PlaybackSelfTerminates ==
    [][\A r \in 1..MaxRuns : FlowchartRunStep(r) /\ SequenceRunStep(r)]_vars

\* run 1 over two messages has just cleared its timer with the cursor at 2,
\* while run 2 has marked the first message only
C11_Witness ==
    /\ op = Call("Sequence.interval", <<1>>)
    /\ Len(sq_messages) = 2
    /\ sq_timers[1] = [state |-> "cleared", step |-> 2]
    /\ sq_timers[2] = [state |-> "running", step |-> 1]

\* C12 (SpecInteractive): a click on a node, selected already or not,
\* dispatches exactly one diagram:nodeSelected event carrying the node and its
\* data-id attribute (null when the node has none); a listener handling the
\* event finds getSelectedNode() equal to the node of the payload and, with
\* highlightConnections, every connection active.
C12_NodeSelectedEvent ==
    op.name = "Interactive.onNodeClick" =>
        LET node == op.arg[1]
        IN  /\ Len(events) = 1
            /\ events[1].type = "diagram:nodeSelected"
            /\ events[1].detail = [node |-> node, id |-> id_markup[node].dataId]
            /\ events[1].seen.selectedNode = node
            /\ Interactive_getSelectedNode = node
            /\ id_options.highlightConnections
               => events[1].seen.active = Range(id_connections)
            /\ ~threw

\* node 2, which carries data-id "n", was clicked with highlightConnections on
\* a diagram of two connections: the listener saw node 2 selected and both lit
C12_Witness ==
    /\ op = Call("Interactive.onNodeClick", <<2>>)
    /\ id_options.highlightConnections
    /\ events = <<[type |-> "diagram:nodeSelected",
                   detail |-> [node |-> 2, id |-> "n"],
                   seen |-> [selectedNode |-> 2, active |-> {1, 2}]]>>

\* the tooltip group, its background and its text carry the same inline opacity
ShownTogether(tooltip) ==
    /\ tooltip.rectOpacity = tooltip.opacity
    /\ tooltip.textOpacity = tooltip.opacity

\* the inline opacity the controller wrote makes the tooltip visible
Visible(tooltip) == tooltip.opacity = "1"

\* C13 (SpecInteractive): a controller built with showTooltip on an existing
\* container has its tooltip from construction on and keeps that one; the
\* tooltip, its background and its text always carry the same opacity; a
\* hover-enter on any node makes them visible, a hover-leave hides them, and a
\* click or reset() leaves them as they are, so the tooltip is visible exactly
\* when the most recent hover event was a hover-enter.
C13_TooltipFollowsHover ==
    /\ [](id_options.showTooltip => id_tooltip.created /\ ShownTogether(id_tooltip))
    /\ [][id_options.showTooltip
          => /\ id_tooltip'.created = id_tooltip.created
             /\ op'.name = "Interactive.onNodeHover"
                => Visible(id_tooltip') /\ id_tooltip'.at = op'.arg[1]
             /\ op'.name = "Interactive.onNodeLeave"
                => ~Visible(id_tooltip') /\ id_tooltip'.opacity = "0"
             /\ op'.name \in {"Interactive.onNodeClick", "Interactive.reset"}
                => id_tooltip' = id_tooltip]_vars

\* reset() was called while the tooltip was showing at node 2: the tooltip,
\* its background and its text are still visible
C13_Witness ==
    /\ op = Call("Interactive.reset", <<>>)
    /\ id_options.showTooltip
    /\ id_tooltip.created
    /\ id_tooltip.at = 2
    /\ Visible(id_tooltip)
    /\ id_tooltip.rectOpacity = "1" /\ id_tooltip.textOpacity = "1"

\* C14 (SpecRefrigeration): toggleAnimation() on a running animation does what
\* stopAnimation() does (flag cleared, nothing pending, offset kept), and on a
\* stopped one what startAnimation() does (with a flow path: flag set, first
\* offset applied, one frame requested; without one: flag left false, nothing
\* requested).  With a flow path every toggle flips the flag, so a second
\* toggle restores the value the first one found, and at most one frame
\* callback is pending after it.
C14_ToggleFlips ==
    [][op'.name = "Refrigeration.toggleAnimation"
       => /\ rc_isAnimating
             => /\ ~rc_isAnimating'
                /\ rc_pending' = {}
                /\ rc_dashoffset' = rc_dashoffset
          /\ ~rc_isAnimating /\ rc_flowPath
             => /\ rc_isAnimating'
                /\ rc_dashoffset' = DashStep
                /\ rc_pending' = {[handle |-> rc_animationFrame', offset |-> DashStep]}
          /\ ~rc_isAnimating /\ ~rc_flowPath
             => /\ ~rc_isAnimating'
                /\ rc_pending' = {}
                /\ rc_dashoffset' = rc_dashoffset
          /\ rc_flowPath => rc_isAnimating' = ~rc_isAnimating
          /\ rc_flowPath /\ op.name = "Refrigeration.toggleAnimation"
             => rc_isAnimating' = ~rc_isAnimating /\ Cardinality(rc_pending') <= 1
          /\ Cardinality(rc_pending') <= 1]_vars

\* toggleAnimation() restarted an animation that had run and been stopped
\* before: the flag is set again and the one pending frame is the new loop's
C14_Witness ==
    /\ op = Call("Refrigeration.toggleAnimation", <<>>)
    /\ rc_flowPath
    /\ rc_isAnimating
    /\ rc_nextHandle > 3
    /\ rc_dashoffset = DashStep
    /\ rc_pending = {[handle |-> rc_animationFrame, offset |-> DashStep]}

\* C15 (SpecInteractive): this.options holds, for showTooltip and for
\* highlightConnections, the value of the constructor's record when the record
\* has that key and true when it has not; with highlightConnections false no
\* connection is ever marked active, and with showTooltip false no tooltip is
\* ever created or shown, whatever is clicked or hovered.
C15_OptionsDefaults ==
    /\ DOMAIN id_options = {"showTooltip", "highlightConnections"}
    /\ \A k \in DOMAIN id_options :
          id_options[k] = IF k \in DOMAIN id_config THEN id_config[k] ELSE TRUE
    /\ ~id_options.highlightConnections => id_active = {}
    /\ ~id_options.showTooltip => id_tooltip = NoTooltip

\* built with { highlightConnections: false } on a diagram of two connections:
\* node 1 was hovered, then clicked; the tooltip shows and no connection is lit
C15_Witness ==
    /\ id_config = [highlightConnections |-> FALSE]
    /\ op = Call("Interactive.onNodeClick", <<1>>)
    /\ Len(id_connections) = 2
    /\ id_selected = {1}
    /\ id_active = {}
    /\ id_tooltip.opacity = "1"

\* the nodes that carry at least one of the highlight classes
Highlighted == {e \in Range(fc_nodes) : fc_classList[e] \cap HighlightClasses # {}}

\* C16 (SpecFlowchart): from markup in which no node is marked, whatever the
\* interleaving of clicks, reset() calls and ticks of overlapping
\* playAnimation() runs, at most one node is highlighted, a highlighted node
\* carries both "selected" and "node-highlighted", and it is the node at
\* index currentStep.
C16_SelectionInvariant ==
    /\ Cardinality(Highlighted) <= 1
    /\ \A e \in Highlighted :
          /\ fc_classList[e] = HighlightClasses
          /\ fc_currentStep + 1 \in DOMAIN fc_nodes
          /\ e = fc_nodes[fc_currentStep + 1]

\* two overlapping runs: run 1 has marked both nodes, then a tick of run 2
\* marked the first node again, which alone is highlighted
C16_Witness ==
    /\ op = Call("Flowchart.interval", <<2>>)
    /\ fc_timers[1] = [state |-> "running", step |-> 2]
    /\ fc_timers[2] = [state |-> "running", step |-> 1]
    /\ Highlighted = {fc_nodes[1]}
    /\ fc_currentStep = 0

\* the operation recorded in an op value is a call from outside the playback
\* runs of the flowchart: a click on a node or reset()
FlowchartOutside(o) == o.name \in {"Flowchart.onNodeClick", "Flowchart.reset"}

\* likewise for the sequence diagram, which has hover listeners and reset()
SequenceOutside(o) ==
    o.name \in {"Sequence.highlightMessage", "Sequence.unhighlightMessage", "Sequence.reset"}

\* C17 (SpecPlayback): reset() of a flowchart leaves no node highlighted and
\* the step index 0, reset() of a sequence diagram leaves every message at
\* opacity 1, and neither a reset() nor a click or hover changes any playback
\* run: every timer and every cursor is as before, and the tick of a running
\* run that comes next marks the element at the run's cursor, alone, so the
\* reset or click is overridden.
C17_NoExternalCancel ==
    [][/\ op'.name = "Flowchart.reset"
          => fc_currentStep' = 0 /\ \A e \in Range(fc_nodes) : fc_classList'[e] = {}
       /\ op'.name = "Sequence.reset" => AllFull'
       /\ FlowchartOutside(op') => fc_timers' = fc_timers
       /\ SequenceOutside(op') => sq_timers' = sq_timers
       /\ \A r \in 1..MaxRuns :
             /\ FlowchartOutside(op)
                /\ op' = Call("Flowchart.interval", <<r>>)
                /\ fc_timers[r].step < Len(fc_nodes)
                => /\ OnlyNodeMarked(fc_classList', fc_timers[r].step)
                   /\ fc_currentStep' = fc_timers[r].step
             /\ SequenceOutside(op)
                /\ op' = Call("Sequence.interval", <<r>>)
                /\ sq_timers[r].step < Len(sq_messages)
                => OnlyMessageFull(sq_style', sq_timers[r].step)]_vars

\* reset() was called while run 1 had marked the first of two nodes: nothing
\* is highlighted, the step index is 0, and run 1 still runs with its cursor at 1
C17_Witness ==
    /\ op = Call("Flowchart.reset", <<>>)
    /\ Len(fc_nodes) = 2
    /\ fc_timers[1] = [state |-> "running", step |-> 1]
    /\ fc_currentStep = 0
    /\ \A e \in Range(fc_nodes) : fc_classList[e] = {}

\* the values the loop can apply: the even integers 0, 2, .., 98
DashValues == {v \in 0..(DashModulus - 1) : v % DashStep = 0}

\* the operation recorded in an op value is a call that starts a stopped animation
StartsAnimation(o) ==
    o.name \in {"Refrigeration.startAnimation", "Refrigeration.toggleAnimation"}

\* C18 (SpecRefrigeration): the stroke-dashoffset of the flow path, once
\* written, is an even integer in 0..98; a frame callback runs only while the
\* animation runs and applies the previous value advanced by 2 modulo 100, so
\* 0 follows 98; a startAnimation() (or a toggle) that starts a stopped
\* animation applies 2, whatever the offset was when it stopped; and nothing
\* else writes the offset.
C18_DashOffset ==
    /\ [](rc_dashoffset # Unset => rc_dashoffset \in DashValues)
    /\ [][/\ op'.name = "Refrigeration.frame"
             => /\ rc_isAnimating
                /\ rc_dashoffset' = (rc_dashoffset + DashStep) % DashModulus
                /\ rc_dashoffset = DashModulus - DashStep => rc_dashoffset' = 0
          /\ StartsAnimation(op') /\ ~rc_isAnimating /\ rc_flowPath
             => rc_dashoffset' = DashStep
          /\ rc_dashoffset' # rc_dashoffset
             => \/ op'.name = "Refrigeration.frame"
                \/ StartsAnimation(op') /\ ~rc_isAnimating]_vars

\* a frame of a running animation has just applied 0, the value after 98
C18_Witness ==
    /\ op.name = "Refrigeration.frame"
    /\ rc_isAnimating
    /\ rc_dashoffset = 0
    /\ rc_nextHandle > DashModulus \div DashStep

=============================================================================
